---- MODULE Spec2Model ----
(***************************************************************************)
(* Model of imgdiff.py: _make_recovery replays an IMGDIFF2 chunk directory *)
(* over a source image.  The three streams (source, patch, bonus) are      *)
(* io.BytesIO buffers with a cursor; the output is a file written at a     *)
(* cursor.  zlib and bsdiff4 are external libraries: they are modelled by  *)
(* small deterministic codecs (decompress, compress, bspatch) that change  *)
(* the length and the content of what they are given and can fail.         *)
(***************************************************************************)
EXTENDS Integers, Sequences, FiniteSets, TLC

VARIABLES
    pc,            \* position in _make_recovery
    err,           \* "" or the failure that ended the run
    sourceBuf,     \* source.fp buffer
    sourcePos,     \* source.fp cursor
    patchBuf,      \* patch.fp buffer
    patchPos,      \* patch.fp cursor
    bonusGiven,    \* FALSE when bonus is None
    bonusBuf,      \* bonus.fp buffer
    bonusPos,      \* bonus.fp cursor
    outBuf,        \* content of the output file
    outPos,        \* output.fp cursor
    outClosed,     \* output.close() has run
    chunk_count,   \* local chunk_count of _make_recovery
    chunks,        \* local chunks of _make_recovery
    parsed,        \* iterations of the parsing loop completed
    idx,           \* 0-based index of the next chunk of the processing loop
    source0,       \* the source image as it was given (never assigned after Init)
    log            \* one record per chunk the processing loop has taken up

vars == <<pc, err, sourceBuf, sourcePos, patchBuf, patchPos, bonusGiven, bonusBuf,
          bonusPos, outBuf, outPos, outClosed, chunk_count, chunks, parsed, idx,
          source0, log>>

----------------------------------------------------------------------------
(* Bounds and program constants *)

MaxChunks == 2

CHUNK_NORMAL == 0
CHUNK_GZIP == 1
CHUNK_DEFLATE == 2
CHUNK_RAW == 3

MAGIC_STRING == <<73, 77, 71, 68, 73, 70, 70, 50>>

----------------------------------------------------------------------------
(* Byte sequences and io.BytesIO *)

Min(a, b) == IF a < b THEN a ELSE b

Max(a, b) == IF a > b THEN a ELSE b

RECURSIVE SumLen(_, _)
SumLen(seqs, n) == IF n = 0 THEN 0 ELSE SumLen(seqs, n - 1) + Len(seqs[n])

RECURSIVE Concat(_, _)
Concat(seqs, n) == IF n = 0 THEN <<>> ELSE Concat(seqs, n - 1) \o seqs[n]

\* fp.read(count): the bytes from the cursor, at most count of them; a negative
\* count (or None, passed here as -1) reads to the end; a cursor at or past
\* the end yields nothing.
BytesIORead(buf, pos, count) ==
    LET avail == IF pos >= Len(buf) THEN <<>> ELSE SubSeq(buf, pos + 1, Len(buf))
    IN  IF count < 0 THEN avail ELSE SubSeq(avail, 1, Min(count, Len(avail)))

FileWrite_Append(buf, pos, data) == buf \o data

FileWrite_Truncating(buf, pos, data) == SubSeq(buf, 1, Min(pos, Len(buf))) \o data

\* fp.write(data) at the cursor: overwrites what is there and extends the file.
FileWrite(buf, pos, data) ==
    [i \in 1..Max(Len(buf), pos + Len(data)) |->
        IF i > pos /\ i <= pos + Len(data) THEN data[i - pos] ELSE buf[i]]

----------------------------------------------------------------------------
(* struct: native little-endian signed integers.  TLC's integers are 32 bits *)
(* wide, so a 64-bit value outside that range is clamped to the nearest      *)
(* 32-bit value: every buffer here is far shorter, and an offset or length   *)
(* that large behaves like any other that lies beyond the buffer.            *)

Low32(b) ==
    b[1] + 256 * b[2] + 65536 * b[3] + 16777216 * (IF b[4] >= 128 THEN b[4] - 256 ELSE b[4])

\* struct.unpack('i', data)
unpack_i(b) == Low32(b)

\* struct.unpack('l', data)
unpack_l(b) ==
    LET hi == SubSeq(b, 5, 8) IN
    IF b[8] >= 128
    THEN IF hi = <<255, 255, 255, 255>> /\ b[4] >= 128 THEN Low32(b) ELSE 0 - 2147483647
    ELSE IF hi = <<0, 0, 0, 0>> /\ b[4] < 128 THEN Low32(b) ELSE 2147483647

\* PatchReader.int32 at cursor pos: the value, or a struct.error on a short read
int32(buf, pos) ==
    LET data == BytesIORead(buf, pos, 4) IN
    [ok |-> Len(data) = 4,
     val |-> IF Len(data) = 4 THEN unpack_i(data) ELSE 0,
     pos |-> pos + Len(data)]

\* PatchReader.int64 at cursor pos
int64(buf, pos) ==
    LET data == BytesIORead(buf, pos, 8) IN
    [ok |-> Len(data) = 8,
     val |-> IF Len(data) = 8 THEN unpack_l(data) ELSE 0,
     pos |-> pos + Len(data)]

\* the inverse of the two, used to build the patch streams of Init
Pack32(v) ==
    LET w == IF v < 0 THEN (v + 2147483647) + 1 ELSE v IN
    <<w % 256, (w \div 256) % 256, (w \div 65536) % 256,
      (w \div 16777216) + (IF v < 0 THEN 128 ELSE 0)>>

Pack64(v) ==
    Pack32(v) \o (IF v < 0 THEN <<255, 255, 255, 255>> ELSE <<0, 0, 0, 0>>)

----------------------------------------------------------------------------
(* zlib and bsdiff4 *)

\* What one byte of a raw-deflate stream stands for in the model's codec: byte
\* b expands to b % 3 copies of b, and byte 0 is an invalid stream.
RECURSIVE InflateFrom(_, _, _, _)
InflateFrom(s, i, acc, limit) ==
    IF limit > 0 /\ Len(acc) >= limit THEN [ok |-> TRUE, bytes |-> SubSeq(acc, 1, limit)]
    ELSE IF i > Len(s) THEN [ok |-> TRUE, bytes |-> acc]
    ELSE IF s[i] = 0 THEN [ok |-> FALSE, bytes |-> <<>>]
    ELSE InflateFrom(s, i + 1, acc \o [k \in 1..(s[i] % 3) |-> s[i]], limit)

\* zlib.decompressobj(-15).decompress(data, max_length): at most max_length
\* bytes of the expansion, all of it when max_length is 0.
decompress(data, max_length) == InflateFrom(data, 1, <<>>, max_length)

\* bsdiff4.patch(src_bytes, patch_bytes).  The payload is self-terminating:
\* <<x, y, e1..ey>> followed by bytes it ignores; the result is the first x
\* bytes of src followed by e1..ey.  A payload that is cut short or that asks
\* for more of src than there is makes the call fail.
bspatch(src_bytes, patch_bytes) ==
    IF Len(patch_bytes) < 2 THEN [ok |-> FALSE, bytes |-> <<>>]
    ELSE LET x == patch_bytes[1]
             y == patch_bytes[2]
         IN  IF x > Len(src_bytes) \/ Len(patch_bytes) < 2 + y
             THEN [ok |-> FALSE, bytes |-> <<>>]
             ELSE [ok |-> TRUE,
                   bytes |-> SubSeq(src_bytes, 1, x) \o SubSeq(patch_bytes, 3, 2 + y)]

RECURSIVE Squeeze(_)
Squeeze(p) ==
    IF Len(p) <= 1 THEN p
    ELSE IF p[1] = p[2] THEN Squeeze(Tail(p))
    ELSE <<p[1]>> \o Squeeze(Tail(p))

\* zlib.compressobj(level, method, window_bits, mem_level, strategy).compress(p):
\* invalid parameters make the constructor fail; level 0 stores, any other
\* level shortens runs of equal bytes.
compress(p, chunk) ==
    IF chunk.method # 8 \/ chunk.level < -1 \/ chunk.level > 9
       \/ chunk.mem_level < 1 \/ chunk.mem_level > 9
       \/ chunk.strategy < 0 \/ chunk.strategy > 4
    THEN [ok |-> FALSE, bytes |-> <<>>]
    ELSE [ok |-> TRUE, bytes |-> IF chunk.level = 0 THEN p ELSE Squeeze(p)]

----------------------------------------------------------------------------
(* Chunk records and their parsers *)

\* the values of consecutive fixed-width fields read from the cursor on; a short
\* read ends it with ok = FALSE (struct.error)
RECURSIVE ReadFields(_, _, _, _)
ReadFields(buf, pos, widths, acc) ==
    IF widths = <<>> THEN [ok |-> TRUE, vals |-> acc, pos |-> pos]
    ELSE LET r == IF Head(widths) = 8 THEN int64(buf, pos) ELSE int32(buf, pos)
         IN  IF ~r.ok THEN [ok |-> FALSE, vals |-> acc, pos |-> r.pos]
             ELSE ReadFields(buf, r.pos, Tail(widths), Append(acc, r.val))

NormalChunk(v) ==
    [type |-> "NormalChunk", src_start |-> v[1], src_len |-> v[2], patch_offset |-> v[3]]

DeflateChunk(v) ==
    [type |-> "DeflateChunk", src_start |-> v[1], src_len |-> v[2], patch_offset |-> v[3],
     src_expanded_len |-> v[4], target_expected_len |-> v[5],
     level |-> v[6], method |-> v[7], window_bits |-> v[8], mem_level |-> v[9],
     strategy |-> v[10]]

read_normal_chunk(buf, pos) ==
    LET r == ReadFields(buf, pos, <<8, 8, 8>>, <<>>)
    IN  IF r.ok THEN [err |-> "", pos |-> r.pos, chunk |-> NormalChunk(r.vals)]
        ELSE [err |-> "TruncatedInput", pos |-> r.pos, chunk |-> <<>>]

read_deflate_chunk(buf, pos) ==
    LET r == ReadFields(buf, pos, <<8, 8, 8, 8, 8, 4, 4, 4, 4, 4>>, <<>>)
    IN  IF r.ok THEN [err |-> "", pos |-> r.pos, chunk |-> DeflateChunk(r.vals)]
        ELSE [err |-> "TruncatedInput", pos |-> r.pos, chunk |-> <<>>]

read_raw_chunk_as_normal(buf, pos) == read_normal_chunk(buf, pos)

read_raw_chunk(buf, pos) ==
    [err |-> "UnsupportedChunkType", pos |-> pos, chunk |-> <<>>]

read_chunk_funcs_default(chunk_type, buf, pos) ==
    IF chunk_type = CHUNK_DEFLATE THEN read_deflate_chunk(buf, pos)
    ELSE IF chunk_type = CHUNK_RAW THEN read_raw_chunk(buf, pos)
    ELSE read_normal_chunk(buf, pos)

\* read_chunk_funcs[chunk_type](patch): a tag that is no key of the table is a
\* KeyError
read_chunk_funcs(chunk_type, buf, pos) ==
    IF chunk_type = CHUNK_NORMAL THEN read_normal_chunk(buf, pos)
    ELSE IF chunk_type = CHUNK_DEFLATE THEN read_deflate_chunk(buf, pos)
    ELSE IF chunk_type = CHUNK_RAW THEN read_raw_chunk(buf, pos)
    ELSE [err |-> "UnknownChunkType", pos |-> pos, chunk |-> <<>>]

\* one iteration of the parsing loop: the type tag, then the record
read_record(buf, pos) ==
    LET t == int32(buf, pos)
    IN  IF ~t.ok THEN [err |-> "TruncatedInput", pos |-> t.pos, chunk |-> <<>>]
        ELSE read_chunk_funcs(t.val, buf, t.pos)

----------------------------------------------------------------------------
(* Chunk processors.  Each yields what the call leaves behind: the failure  *)
(* (or ""), the three cursors, and what it read, handed on and returned.    *)

\* `source.position = chunk.src_start; source.read(chunk.src_len)`: the seek
\* replaces the cursor sPos the stream was left with
source_read_at_cursor(sBuf, sPos, chunk) == BytesIORead(sBuf, sPos, chunk.src_len)

source_read(sBuf, sPos, chunk) == BytesIORead(sBuf, chunk.src_start, chunk.src_len)

\* `if bonus: raw_src_bytes += bonus.read()`: a SourceReader is always true,
\* and read() takes what lies between the cursor and the end
bonus_read_rewound(bGiven, bBuf, bPos) == IF bGiven THEN bBuf ELSE <<>>

bonus_read(bGiven, bBuf, bPos) == IF bGiven THEN BytesIORead(bBuf, bPos, -1) ELSE <<>>

\* `patch.position = chunk.patch_offset; patch.raw()`: the seek replaces the
\* cursor pPos the stream was left with, and raw() reads to the end
patch_raw_at_cursor(pBuf, pPos, chunk) == BytesIORead(pBuf, pPos, -1)

patch_raw(pBuf, pPos, chunk) == BytesIORead(pBuf, chunk.patch_offset, -1)

\* `if len(raw_output_bytes) != chunk.target_expected_len: raise`
reconstruction_unchecked(raw_output_bytes, chunk) == TRUE

reconstruction_ok(raw_output_bytes, chunk) ==
    Len(raw_output_bytes) = chunk.target_expected_len

NoStep ==
    [err |-> "", sourcePos |-> 0, patchPos |-> 0, bonusPos |-> 0,
     source_read |-> FALSE, src_bytes |-> <<>>, patch_bytes |-> <<>>,
     bonus_read |-> FALSE, bonus_bytes |-> <<>>,
     delta_called |-> FALSE, delta_src |-> <<>>, delta_out |-> <<>>,
     compress_called |-> FALSE, output_bytes |-> <<>>]

\* `source.position = ...; source.read(chunk.src_len)` and
\* `patch.position = chunk.patch_offset; patch.raw()`, on cursors sPos and bPos
process_normal_chunk(chunk, sBuf, sPos, pBuf, pPos, bGiven, bBuf, bPos) ==
    LET base == [NoStep EXCEPT !.sourcePos = sPos, !.patchPos = chunk.patch_offset,
                               !.bonusPos = bPos]
        src_bytes == source_read(sBuf, sPos, chunk)
        patch_bytes == patch_raw(pBuf, pPos, chunk)
        read == [base EXCEPT !.source_read = TRUE, !.src_bytes = src_bytes,
                             !.sourcePos = chunk.src_start + Len(src_bytes),
                             !.patch_bytes = patch_bytes,
                             !.patchPos = chunk.patch_offset + Len(patch_bytes),
                             !.delta_called = TRUE, !.delta_src = src_bytes]
        out == bspatch(src_bytes, patch_bytes)
    IN  IF chunk.src_start < 0 THEN [base EXCEPT !.err = "NegativeSeek"]
        ELSE IF ~out.ok THEN [read EXCEPT !.err = "DeltaFailure"]
        ELSE [read EXCEPT !.delta_out = out.bytes, !.output_bytes = out.bytes]

process_deflate_chunk(chunk, sBuf, sPos, pBuf, pPos, bGiven, bBuf, bPos) ==
    LET patch_bytes == patch_raw(pBuf, pPos, chunk)
        base == [NoStep EXCEPT !.sourcePos = sPos, !.bonusPos = bPos,
                               !.patch_bytes = patch_bytes,
                               !.patchPos = chunk.patch_offset + Len(patch_bytes)]
        src_bytes == source_read(sBuf, sPos, chunk)
        read == [base EXCEPT !.source_read = TRUE, !.src_bytes = src_bytes,
                             !.sourcePos = chunk.src_start + Len(src_bytes)]
        inflated == decompress(src_bytes, chunk.src_expanded_len)
        bonus_bytes == bonus_read(bGiven, bBuf, bPos)
        raw_src_bytes == inflated.bytes \o bonus_bytes
        appended == [read EXCEPT !.bonus_read = bGiven, !.bonus_bytes = bonus_bytes,
                                 !.bonusPos = Max(bPos, Len(bBuf))]
        raw_output == bspatch(raw_src_bytes, patch_bytes)
        called == [appended EXCEPT !.delta_called = TRUE, !.delta_src = raw_src_bytes]
        rebuilt == [called EXCEPT !.delta_out = raw_output.bytes]
        compressed == compress(raw_output.bytes, chunk)
        packed == [rebuilt EXCEPT !.compress_called = TRUE]
    IN  IF chunk.src_start < 0 THEN [base EXCEPT !.err = "NegativeSeek"]
        ELSE IF Len(src_bytes) # chunk.src_len THEN [read EXCEPT !.err = "ShortRead"]
        ELSE IF chunk.src_expanded_len < 0 \/ ~inflated.ok
             THEN [read EXCEPT !.err = "DecompressError"]
        ELSE IF Len(raw_src_bytes) # chunk.src_expanded_len
             THEN [appended EXCEPT !.err = "ExpansionLengthMismatch"]
        ELSE IF ~raw_output.ok THEN [called EXCEPT !.err = "DeltaFailure"]
        ELSE IF ~reconstruction_ok(raw_output.bytes, chunk)
             THEN [rebuilt EXCEPT !.err = "ReconstructionLengthMismatch"]
        ELSE IF ~compressed.ok THEN [packed EXCEPT !.err = "CompressError"]
        ELSE [packed EXCEPT !.output_bytes = compressed.bytes]

----------------------------------------------------------------------------
(* Inputs: source images, bonus buffers and patch streams *)

SourceImages == {<<>>, <<1>>, <<2, 1>>, <<0, 1, 2>>}

\* <<given, bytes>>: no bonus file, an empty one, one byte of bonus
BonusInputs == {<<FALSE, <<>>>>, <<TRUE, <<>>>>, <<TRUE, <<7>>>>}

\* the delta payloads that follow the directory in the patch stream
PayloadAreas == {<<1, 1, 9, 0, 1, 8>>, <<0, 2, 8, 8, 2, 0>>, <<0, 1, 8, 1, 1, 9>>}

\* Directory entries the patch streams are built from.  rel is the payload's
\* offset from the end of the directory (a negative one is kept as it is).
Tpl(tag, start, len, rel, exp, tgt, level) ==
    [tag |-> tag, src_start |-> start, src_len |-> len, rel |-> rel,
     src_expanded_len |-> exp, target_expected_len |-> tgt, level |-> level]

Templates ==
    {Tpl(CHUNK_NORMAL, 0, 1, 0, 0, 0, 0),
     Tpl(CHUNK_NORMAL, 1, 1, 3, 0, 0, 0),
     Tpl(CHUNK_NORMAL, 1, 3, 0, 0, 0, 0),
     Tpl(CHUNK_NORMAL, 0, -1, 3, 0, 0, 0),
     Tpl(CHUNK_NORMAL, -1, 1, 0, 0, 0, 0),
     Tpl(CHUNK_DEFLATE, 0, 1, 0, 1, 2, 6),
     Tpl(CHUNK_DEFLATE, 0, 1, 3, 2, 1, 0),
     Tpl(CHUNK_DEFLATE, 1, 3, 0, 2, 2, 6),
     Tpl(CHUNK_RAW, 0, 0, 0, 0, 0, 0),
     Tpl(CHUNK_GZIP, 0, 0, 0, 0, 0, 0)}

Directories == UNION {[1..n -> Templates] : n \in 0..MaxChunks}

RecordSize(t) ==
    IF t.tag = CHUNK_NORMAL THEN 28 ELSE IF t.tag = CHUNK_DEFLATE THEN 64 ELSE 4

RECURSIVE DirectorySize(_, _)
DirectorySize(dir, n) ==
    IF n = 0 THEN 0 ELSE DirectorySize(dir, n - 1) + RecordSize(dir[n])

EncodeRecord(t, base) ==
    LET off == IF t.rel < 0 THEN t.rel ELSE base + t.rel
        head == Pack64(t.src_start) \o Pack64(t.src_len) \o Pack64(off)
    IN  Pack32(t.tag) \o
        (IF t.tag = CHUNK_NORMAL THEN head
         ELSE IF t.tag = CHUNK_DEFLATE
              THEN head \o Pack64(t.src_expanded_len) \o Pack64(t.target_expected_len)
                   \o Pack32(t.level) \o Pack32(8) \o Pack32(-15) \o Pack32(8) \o Pack32(0)
              ELSE <<>>)

RECURSIVE EncodeDirectory(_, _, _)
EncodeDirectory(dir, n, base) ==
    IF n = 0 THEN <<>>
    ELSE EncodeDirectory(dir, n - 1, base) \o EncodeRecord(dir[n], base)

\* the patch stream of section "magic, chunk_count, records, payloads"
PatchStream(magic, count, dir, payload) ==
    LET base == Len(magic) + 4 + DirectorySize(dir, Len(dir))
    IN  magic \o Pack32(count) \o EncodeDirectory(dir, Len(dir), base) \o payload

Truncated(stream, n) == SubSeq(stream, 1, Min(n, Len(stream)))

BadMagics == {<<73, 77, 71, 68, 73, 70, 70, 49>>, <<73, 77, 71, 68>>, <<>>}

\* well-formed streams, and streams with a wrong magic token, a chunk count
\* that is not the number of records, or an early end
WellFormed == {PatchStream(MAGIC_STRING, Len(d), d, p) : d \in Directories, p \in PayloadAreas}

Malformed ==
    {PatchStream(m, Len(d), d, <<1, 1, 9>>) : m \in BadMagics, d \in Directories}
    \cup {PatchStream(MAGIC_STRING, c, d, <<1, 1, 9, 0>>) :
            c \in {-1, MaxChunks + 1}, d \in Directories}
    \cup {Truncated(PatchStream(MAGIC_STRING, Len(d), d, <<>>), n) :
            n \in {10, 14, 30, 50}, d \in Directories}

----------------------------------------------------------------------------
(* _make_recovery *)

Init ==
    /\ pc = "start"
    /\ err = ""
    /\ \/ /\ sourceBuf \in SourceImages
          /\ patchBuf \in WellFormed
          /\ \E b \in BonusInputs : bonusGiven = b[1] /\ bonusBuf = b[2]
       \/ /\ sourceBuf = <<2, 1>>
          /\ patchBuf \in Malformed
          /\ bonusGiven = FALSE /\ bonusBuf = <<>>
    /\ source0 = sourceBuf
    /\ sourcePos = 0
    /\ patchPos = 0
    /\ bonusPos = 0
    /\ outBuf = <<>>
    /\ outPos = 0
    /\ outClosed = FALSE
    /\ chunk_count = 0
    /\ chunks = <<>>
    /\ parsed = 0
    /\ idx = 0
    /\ log = <<>>

\* lines 145-148: the output starts as a copy of the source
SeedOutput ==
    /\ pc = "start"
    /\ LET source_bytes == BytesIORead(sourceBuf, sourcePos, Len(sourceBuf))
       IN  /\ sourcePos' = sourcePos + Len(source_bytes)
           /\ outBuf' = FileWrite(outBuf, outPos, source_bytes)
    /\ outPos' = 0
    /\ pc' = "magic"
    /\ UNCHANGED <<err, sourceBuf, patchBuf, patchPos, bonusGiven, bonusBuf, bonusPos,
                   outClosed, chunk_count, chunks, parsed, idx, source0, log>>

ReadMagic_NoExit ==
    /\ pc = "magic"
    /\ patchPos' = patchPos + Len(BytesIORead(patchBuf, patchPos, Len(MAGIC_STRING)))
    /\ pc' = "count"
    /\ UNCHANGED <<err, sourceBuf, sourcePos, patchBuf, bonusGiven, bonusBuf, bonusPos,
                   outBuf, outPos, outClosed, chunk_count, chunks, parsed, idx, source0, log>>

\* lines 150-153
ReadMagic ==
    /\ pc = "magic"
    /\ LET header == BytesIORead(patchBuf, patchPos, Len(MAGIC_STRING))
       IN  /\ patchPos' = patchPos + Len(header)
           /\ IF header # MAGIC_STRING
              THEN pc' = "failed" /\ err' = "BadMagic"
              ELSE pc' = "count" /\ err' = err
    /\ UNCHANGED <<sourceBuf, sourcePos, patchBuf, bonusGiven, bonusBuf, bonusPos, outBuf,
                   outPos, outClosed, chunk_count, chunks, parsed, idx, source0, log>>

\* lines 155-158
ReadCount ==
    /\ pc = "count"
    /\ LET n == int32(patchBuf, patchPos)
       IN  /\ patchPos' = n.pos
           /\ IF ~n.ok
              THEN pc' = "failed" /\ err' = "TruncatedInput" /\ chunk_count' = chunk_count
              ELSE /\ chunk_count' = n.val
                   /\ pc' = IF n.val > 0 THEN "parse" ELSE "process"
                   /\ err' = err
    /\ UNCHANGED <<sourceBuf, sourcePos, patchBuf, bonusGiven, bonusBuf, bonusPos, outBuf,
                   outPos, outClosed, chunks, parsed, idx, source0, log>>

\* lines 159-163: one iteration of `for _ in range(chunk_count)`
ParseRecord ==
    /\ pc = "parse"
    /\ LET r == read_record(patchBuf, patchPos)
       IN  /\ patchPos' = r.pos
           /\ IF r.err # ""
              THEN pc' = "failed" /\ err' = r.err /\ UNCHANGED <<chunks, parsed>>
              ELSE /\ chunks' = Append(chunks, r.chunk)
                   /\ parsed' = parsed + 1
                   /\ pc' = IF parsed + 1 < chunk_count THEN "parse" ELSE "process"
                   /\ err' = err
    /\ UNCHANGED <<sourceBuf, sourcePos, patchBuf, bonusGiven, bonusBuf, bonusPos, outBuf,
                   outPos, outClosed, chunk_count, idx, source0, log>>

\* lines 165-175: one iteration of `for chunk in chunks` on chunk number idx,
\* with process_chunk_func the processor of the chunk's type
ProcessChunk(r) ==
    LET chunk == chunks[idx + 1]
        entry == [k |-> idx, chunk |-> chunk, out_pos |-> outPos,
                  written |-> r.err = "", step |-> r]
    IN  /\ log' = Append(log, entry)
        /\ patchPos' = r.patchPos
        /\ sourcePos' = r.sourcePos
        /\ bonusPos' = r.bonusPos
        /\ IF r.err # ""
           THEN pc' = "failed" /\ err' = r.err /\ UNCHANGED <<outBuf, outPos, idx>>
           ELSE /\ outBuf' = FileWrite(outBuf, outPos, r.output_bytes)
                /\ outPos' = outPos + Len(r.output_bytes)
                /\ idx' = idx + 1
                /\ UNCHANGED <<pc, err>>
        /\ UNCHANGED <<sourceBuf, patchBuf, bonusGiven, bonusBuf, outClosed, chunk_count,
                       chunks, parsed, source0>>

\* line 167 fails on a negative patch_offset before the processor is entered
SeekFailure(chunk) ==
    [NoStep EXCEPT !.err = "NegativeSeek", !.sourcePos = sourcePos,
                   !.patchPos = patchPos, !.bonusPos = bonusPos]

ProcessNormalChunk ==
    /\ pc = "process"
    /\ idx < Len(chunks)
    /\ chunks[idx + 1].type = "NormalChunk"
    /\ ProcessChunk(IF chunks[idx + 1].patch_offset < 0 THEN SeekFailure(chunks[idx + 1])
                    ELSE process_normal_chunk(chunks[idx + 1], sourceBuf, sourcePos,
                                              patchBuf, patchPos, bonusGiven, bonusBuf,
                                              bonusPos))

ProcessDeflateChunk ==
    /\ pc = "process"
    /\ idx < Len(chunks)
    /\ chunks[idx + 1].type = "DeflateChunk"
    /\ ProcessChunk(IF chunks[idx + 1].patch_offset < 0 THEN SeekFailure(chunks[idx + 1])
                    ELSE process_deflate_chunk(chunks[idx + 1], sourceBuf, sourcePos,
                                               patchBuf, patchPos, bonusGiven, bonusBuf,
                                               bonusPos))

CloseOutput_Finally ==
    /\ \/ pc = "process" /\ idx = Len(chunks)
       \/ pc = "failed" /\ ~outClosed
    /\ outClosed' = TRUE
    /\ pc' = IF pc = "failed" THEN pc ELSE "done"
    /\ UNCHANGED <<err, sourceBuf, sourcePos, patchBuf, patchPos, bonusGiven, bonusBuf,
                   bonusPos, outBuf, outPos, chunk_count, chunks, parsed, idx, source0, log>>

\* line 177
CloseOutput ==
    /\ pc = "process"
    /\ idx = Len(chunks)
    /\ outClosed' = TRUE
    /\ pc' = "done"
    /\ UNCHANGED <<err, sourceBuf, sourcePos, patchBuf, patchPos, bonusGiven, bonusBuf,
                   bonusPos, outBuf, outPos, chunk_count, chunks, parsed, idx, source0, log>>

Next ==
    \/ SeedOutput
    \/ ReadMagic
    \/ ReadCount
    \/ ParseRecord
    \/ ProcessNormalChunk
    \/ ProcessDeflateChunk
    \/ CloseOutput

Spec == Init /\ [][Next]_vars

----------------------------------------------------------------------------
(* Properties *)

\* the bytes each chunk taken up so far has returned (none for a failed one)
Outputs == [i \in 1..Len(log) |-> log[i].step.output_bytes]

IsDeflate(e) == e.chunk.type = "DeflateChunk"

\* the whole expansion of the chunk's source range, without an output limit
TrueExpansion(chunk) ==
    decompress(BytesIORead(source0, chunk.src_start, chunk.src_len), 0)

InSource(chunk) ==
    /\ chunk.src_start >= 0
    /\ chunk.src_len >= 0
    /\ chunk.src_start + chunk.src_len <= Len(source0)

\* C1: chunk k is written at the cursor position that equals the total length
\* of the outputs of chunks 0..k-1, the chunks are taken in directory order,
\* and the sink begins with the concatenation of the outputs written so far
\* (after a completed run: of all chunk outputs).
C1_SequentialWrites ==
    /\ \A i \in 1..Len(log) :
          /\ log[i].k = i - 1
          /\ log[i].chunk = chunks[i]
          /\ log[i].out_pos = SumLen(Outputs, i - 1)
    /\ outPos = SumLen(Outputs, Len(log))
    /\ pc # "start" => /\ Len(outBuf) >= outPos
                       /\ SubSeq(outBuf, 1, outPos) = Concat(Outputs, Len(log))
    /\ pc = "done" => Len(log) = Len(chunks)

C1_Witness ==
    /\ pc = "done"
    /\ Len(log) = 2
    /\ Len(log[1].step.output_bytes) = 2
    /\ Len(log[2].step.output_bytes) = 1
    /\ log[2].out_pos = 2

\* C2: after a completed run the sink holds exactly the concatenation of the
\* chunk outputs (the target), whatever the lengths of source and target.
C2_RoundTrip == pc = "done" => outBuf = Concat(Outputs, Len(log))

\* C3: the source buffer never changes, and the bytes a chunk reads from it
\* are the bytes of the original image from src_start on, src_len of them or
\* as many as the image has, whatever the sink holds at those offsets and
\* wherever the source cursor was.
C3_SourceReadsUntouched ==
    /\ sourceBuf = source0
    /\ \A i \in 1..Len(log) :
          LET c == log[i].chunk
              b == log[i].step.src_bytes
              tail == Max(0, Len(source0) - c.src_start)
          IN  log[i].step.source_read =>
                /\ \A j \in 1..Len(b) : b[j] = source0[c.src_start + j]
                /\ Len(b) = IF c.src_len < 0 THEN tail ELSE Min(c.src_len, tail)

C3_Witness ==
    /\ Len(source0) >= 2
    /\ Len(log) = 2
    /\ log[2].step.source_read
    /\ log[2].chunk.src_start = 1
    /\ log[2].step.src_bytes = <<source0[2]>>
    /\ log[2].out_pos = 2
    /\ outBuf[2] # source0[2]
    /\ sourcePos = 2

\* C4: a DeflateChunk processed without bonus data whose source range expands
\* to a length other than src_expanded_len fails with ExpansionLengthMismatch,
\* writes nothing and never reaches the delta engine.
C4_ExpansionLengthEnforced ==
    \A i \in 1..Len(log) :
        LET e == log[i] IN
        (/\ IsDeflate(e)
         /\ ~bonusGiven
         /\ e.step.source_read
         /\ InSource(e.chunk)
         /\ TrueExpansion(e.chunk).ok
         /\ Len(TrueExpansion(e.chunk).bytes) # e.chunk.src_expanded_len)
        => (e.step.err = "ExpansionLengthMismatch" /\ ~e.written /\ ~e.step.delta_called)

\* C5: a chunk of either kind whose source range ends past the end of the
\* source image fails with a short read before the delta engine is invoked,
\* and nothing is written for it.
C5_ShortReadFails ==
    \A i \in 1..Len(log) :
        LET e == log[i] IN
        (/\ e.chunk.src_start >= 0
         /\ e.chunk.src_len >= 0
         /\ e.chunk.patch_offset >= 0
         /\ e.chunk.src_start + e.chunk.src_len > Len(source0))
        => (e.step.err = "ShortRead" /\ ~e.written /\ ~e.step.delta_called)

\* the next record of the parsing loop carries the raw type tag
RawTagAtCursor ==
    /\ pc = "parse"
    /\ int32(patchBuf, patchPos).ok
    /\ int32(patchBuf, patchPos).val = CHUNK_RAW

\* C6 as stated: when the run fails with UnsupportedChunkType at record k,
\* the outputs of the records 0..k-1 have been written to the sink.
C6_PriorOutputsWritten ==
    err = "UnsupportedChunkType" =>
        /\ Len(log) = parsed
        /\ \A i \in 1..Len(log) : log[i].written

\* C6 as amended: a record with the raw type tag that the parsing loop
\* reaches makes the run fail with UnsupportedChunkType during directory
\* parsing, whatever its index; no chunk has been processed by then, so the
\* sink holds the copy of the source and no output of any record.
C6_RawFailsWhileParsing ==
    [][/\ RawTagAtCursor => (pc' = "failed" /\ err' = "UnsupportedChunkType")
       /\ err' = "UnsupportedChunkType" =>
            /\ pc = "parse"
            /\ Len(chunks') = parsed'
            /\ log' = <<>>
            /\ idx' = 0
            /\ outBuf' = source0
            /\ outPos' = 0
            /\ ~outClosed']_vars

C6_Witness ==
    /\ err = "UnsupportedChunkType"
    /\ parsed = 1
    /\ chunks[1].type = "NormalChunk"
    /\ InSource(chunks[1])
    /\ Len(source0) > 0

\* the DeflateChunks of the directory whose source range expands to n bytes
\* fewer than their src_expanded_len
Lacking(n) ==
    {i \in 1..Len(chunks) :
        /\ chunks[i].type = "DeflateChunk"
        /\ InSource(chunks[i])
        /\ TrueExpansion(chunks[i]).ok
        /\ Len(TrueExpansion(chunks[i]).bytes) = chunks[i].src_expanded_len - n}

DeflateChunks == {i \in 1..Len(chunks) : chunks[i].type = "DeflateChunk"}

\* C7: with a non-empty bonus buffer and exactly one DeflateChunk c that
\* lacks len(bonus) bytes, all other DeflateChunks expanding to exactly their
\* src_expanded_len, the bonus bytes are appended to c and to no other chunk
\* and no DeflateChunk fails the expansion-length check, wherever c stands.
C7_BonusGoesToLackingChunk ==
    (/\ parsed = chunk_count
     /\ bonusGiven
     /\ bonusBuf # <<>>
     /\ Cardinality(Lacking(Len(bonusBuf))) = 1
     /\ Lacking(0) = DeflateChunks \ Lacking(Len(bonusBuf)))
    => \A i \in 1..Len(log) :
          IsDeflate(log[i]) =>
            /\ log[i].step.err # "ExpansionLengthMismatch"
            /\ log[i].step.bonus_read =>
                 log[i].step.bonus_bytes =
                    IF i \in Lacking(Len(bonusBuf)) THEN bonusBuf ELSE <<>>

\* the entries of DeflateChunks that came before entry i
EarlierDeflate(i) == {j \in 1..(i - 1) : IsDeflate(log[j])}

\* C8: at most one DeflateChunk is given bonus bytes: the first one processed
\* reads the bonus buffer from its start to its end when it gets to the
\* bonus step, and every DeflateChunk after it appends nothing.
C8_BonusConsumedOnce ==
    /\ Cardinality({i \in 1..Len(log) : log[i].step.bonus_bytes # <<>>}) <= 1
    /\ \A i \in 1..Len(log) :
          /\ ~IsDeflate(log[i]) =>
                ~log[i].step.bonus_read /\ log[i].step.bonus_bytes = <<>>
          /\ (IsDeflate(log[i]) /\ EarlierDeflate(i) # {}) =>
                log[i].step.bonus_bytes = <<>>
          /\ (IsDeflate(log[i]) /\ EarlierDeflate(i) = {}) =>
                /\ log[i].step.bonus_read =>
                     (log[i].step.bonus_bytes = bonusBuf /\ bonusPos = Len(bonusBuf))
                /\ (bonusGiven /\ log[i].step.err
                        \notin {"NegativeSeek", "ShortRead", "DecompressError"})
                     => log[i].step.bonus_read

C8_Witness ==
    /\ Len(log) = 2
    /\ IsDeflate(log[1])
    /\ IsDeflate(log[2])
    /\ log[1].step.bonus_bytes = <<7>>
    /\ log[2].step.bonus_read
    /\ log[2].step.bonus_bytes = <<>>
    /\ log[2].written

\* C9: a chunk whose processing fails writes nothing, and after a failure no
\* byte is written, no further chunk is taken up and the sink is not closed;
\* the sink is closed only once every chunk of the directory has been written.
C9_FailFast ==
    [][/\ err' # "" =>
            /\ pc' = "failed"
            /\ outBuf' = outBuf
            /\ outPos' = outPos
            /\ idx' = idx
            /\ ~outClosed'
       /\ err # "" => (log' = log /\ err' = err)
       /\ outClosed' =>
            /\ err' = ""
            /\ Len(chunks') = Max(chunk_count', 0)
            /\ Len(log') = Len(chunks')
            /\ \A i \in 1..Len(log') : log'[i].written]_vars

C9_Witness ==
    /\ pc = "failed"
    /\ Len(chunks) = 2
    /\ Len(log) = 2
    /\ log[1].written
    /\ Len(log[1].step.output_bytes) > 0
    /\ ~log[2].written
    /\ err = "ReconstructionLengthMismatch"

\* C10: a patch stream that does not begin with the 8 bytes IMGDIFF2 makes
\* the run fail with BadMagic before the chunk count is read and before any
\* record is parsed or any chunk processed.
C10_BadMagicFirst ==
    (pc \notin {"start", "magic"} /\ BytesIORead(patchBuf, 0, 8) # MAGIC_STRING) =>
        /\ pc = "failed"
        /\ err = "BadMagic"
        /\ patchPos = Min(8, Len(patchBuf))
        /\ chunk_count = 0
        /\ parsed = 0
        /\ chunks = <<>>
        /\ log = <<>>
        /\ idx = 0

C10_Witness ==
    /\ err = "BadMagic"
    /\ Len(patchBuf) > 40
    /\ SubSeq(patchBuf, 1, 7) = SubSeq(MAGIC_STRING, 1, 7)

\* what is left of the patch stream after the cursor
Remaining == Max(0, Len(patchBuf) - patchPos)

\* the type tag of the record the parsing loop is about to read
TagAtCursor == unpack_i(SubSeq(patchBuf, patchPos + 1, patchPos + 4))

UnknownTagAtCursor ==
    /\ pc = "parse"
    /\ Remaining >= 4
    /\ TagAtCursor \notin {CHUNK_NORMAL, CHUNK_DEFLATE, CHUNK_RAW}

\* C11: a record whose type tag is none of 0, 2 and 3 (tag 1 included) makes
\* the run fail with UnknownChunkType while the directory is parsed, at any
\* index, before any chunk has been processed or its output written.
C11_UnknownTagFailsWhileParsing ==
    [][/\ UnknownTagAtCursor => (pc' = "failed" /\ err' = "UnknownChunkType")
       /\ err' = "UnknownChunkType" =>
            /\ UnknownTagAtCursor
            /\ Len(chunks') = parsed'
            /\ log' = <<>>
            /\ idx' = 0
            /\ outBuf' = source0
            /\ outPos' = 0
            /\ ~outClosed']_vars

C11_Witness ==
    /\ err = "UnknownChunkType"
    /\ parsed = 1
    /\ chunks[1].type = "NormalChunk"
    /\ InSource(chunks[1])
    /\ unpack_i(SubSeq(patchBuf, patchPos - 3, patchPos)) = CHUNK_GZIP
    /\ log = <<>>

\* C12: a DeflateChunk whose delta-reconstructed plaintext has a length other
\* than target_expected_len fails with ReconstructionLengthMismatch before
\* the plaintext is recompressed, and nothing is written for it.
C12_ReconstructionLengthEnforced ==
    \A i \in 1..Len(log) :
        LET e == log[i] IN
        (/\ IsDeflate(e)
         /\ e.step.delta_called
         /\ e.step.err # "DeltaFailure"
         /\ Len(e.step.delta_out) # e.chunk.target_expected_len)
        => /\ e.step.err = "ReconstructionLengthMismatch"
           /\ ~e.step.compress_called
           /\ ~e.written
           /\ e.step.output_bytes = <<>>
           /\ i = Len(log)
           /\ outPos = e.out_pos

C12_Witness ==
    /\ Len(log) = 1
    /\ log[1].step.err = "ReconstructionLengthMismatch"
    /\ Len(log[1].step.delta_out) > log[1].chunk.target_expected_len
    /\ outBuf = source0

ShortMagic == pc = "magic" /\ Remaining < Len(MAGIC_STRING)

ShortCount == pc = "count" /\ Remaining < 4

\* the next record ends past the end of the stream: its type tag does, or the
\* fields of a normal (24 bytes) or deflate (60 bytes) record do
ShortRecord ==
    /\ pc = "parse"
    /\ \/ Remaining < 4
       \/ Remaining >= 4 /\ TagAtCursor = CHUNK_NORMAL /\ Remaining < 28
       \/ Remaining >= 4 /\ TagAtCursor = CHUNK_DEFLATE /\ Remaining < 64

\* C13: every fixed-width or counted read that runs past the end of the patch
\* stream (the 8-byte magic token, the chunk count, a type tag, a 64-bit or
\* 32-bit record field) fails the run with TruncatedInput, and no chunk is
\* processed afterwards.
C13_EveryShortReadIsTruncatedInput ==
    [][(ShortMagic \/ ShortCount \/ ShortRecord) =>
            (pc' = "failed" /\ err' = "TruncatedInput" /\ log' = <<>>)]_vars

ParseFailures == {"BadMagic", "TruncatedInput", "UnknownChunkType", "UnsupportedChunkType"}

\* C15: the sink receives its first write, the source copy, only after the
\* directory has been built: while the magic, the count and the records are
\* being read nothing has been written, and a run that failed with BadMagic
\* or with a parse failure has written zero bytes to the sink.
C15_SeedAfterDirectory ==
    (\/ pc \in {"magic", "count", "parse"}
     \/ pc = "failed" /\ err \in ParseFailures)
    => outBuf = <<>>

\* C16: after the seed write the sink's length is max(source length, output
\* cursor), the bytes from the cursor up to the source length are the
\* source's, and the sink never shrinks.
C16_SinkShape ==
    /\ [](pc # "start" =>
            /\ Len(outBuf) = Max(Len(source0), outPos)
            /\ \A p \in (outPos + 1)..Len(source0) : outBuf[p] = source0[p])
    /\ [][Len(outBuf') >= Len(outBuf)]_vars

\* a completed run whose outputs total fewer bytes than the source: the
\* source's tail is still in the sink
C16_Witness ==
    /\ pc = "done"
    /\ 0 < outPos
    /\ outPos < Len(source0)
    /\ outBuf[1] # source0[1]
    /\ Len(outBuf) = Len(source0)

\* a completed run whose outputs extend the sink beyond the source
C16_WitnessExtended ==
    pc = "done" /\ Len(source0) > 0 /\ outPos > Len(source0) /\ Len(outBuf) = outPos

\* the bytes of the patch stream from offset to its end
PatchTail(offset) ==
    IF offset >= Len(patchBuf) THEN <<>> ELSE SubSeq(patchBuf, offset + 1, Len(patchBuf))

\* C17: the delta payload handed to the delta engine for a chunk, normal or
\* deflate, is the patch stream from the record's patch_offset to its end,
\* wherever the patch cursor was left; records with the same patch_offset
\* get the same payload.
C17_PayloadFromPatchOffset ==
    /\ \A i \in 1..Len(log) :
        log[i].step.delta_called =>
            /\ log[i].step.patch_bytes = PatchTail(log[i].chunk.patch_offset)
            /\ log[i].step.patchPos = Max(Len(patchBuf), log[i].chunk.patch_offset)
    /\ \A i, j \in 1..Len(log) :
        (/\ log[i].step.delta_called
         /\ log[j].step.delta_called
         /\ log[i].chunk.patch_offset = log[j].chunk.patch_offset)
        => log[i].step.patch_bytes = log[j].step.patch_bytes

\* the second chunk's payload starts before the place where the first chunk's
\* read left the cursor, and the two chunks share the offset
C17_Witness ==
    /\ Len(log) = 2
    /\ log[1].step.delta_called
    /\ log[2].step.delta_called
    /\ log[1].step.patchPos = Len(patchBuf)
    /\ log[2].chunk.patch_offset < Len(patchBuf)
    /\ log[2].chunk.patch_offset = log[1].chunk.patch_offset
    /\ log[2].chunk.type # log[1].chunk.type
    /\ log[2].step.patch_bytes # <<>>

\* C18: once directory parsing has completed, chunk_count >= 0 and the
\* directory holds exactly chunk_count records, for every value of the
\* signed 32-bit count field; the record list does not change while the
\* chunks are processed.
C18_DirectoryMatchesCount ==
    [][/\ pc' \in {"process", "done"} =>
            (chunk_count' >= 0 /\ Len(chunks') = chunk_count')
       /\ pc = "process" => (chunks' = chunks /\ chunk_count' = chunk_count)]_vars

====
